---- MODULE Spec2Model ----
(***************************************************************************)
(* A model of the Alliance bindings for CosmWasm (src/src/lib.rs): the     *)
(* RFC3339 <-> Timestamp wire codec of AllianceAsset::reward_start_time,   *)
(* the four AllianceMsg builders and their serde envelope, and the nine    *)
(* typed query methods of AllianceQuerier for QuerierWrapper.              *)
(*                                                                         *)
(* Representation.  TLC's integers are 32 bits wide, the program's         *)
(* nanosecond counts are 64 bits wide.  A wide integer is therefore kept   *)
(* as three decimal limbs <<h, m, n>> that stand for                       *)
(*        h * 10^18 + m * 10^9 + n        with 0 <= m, n < 10^9,           *)
(* h carrying the sign (floor representation), so that                     *)
(* 1686075449956787974 is <<1, 686075449, 956787974>>.  All 64-bit         *)
(* arithmetic (the casts `as i64` / `as u64`, wrapping, overflow) is done  *)
(* exactly on that representation.                                         *)
(*                                                                         *)
(* A string is a sequence of one-character strings, so that formatting     *)
(* and parsing are computed character by character.                        *)
(***************************************************************************)
EXTENDS Integers, Sequences, FiniteSets, TLC

VARIABLES
    \* ---- wire codec (serialize_time_stamp / deserialize_time_stamp)
    codec_pc,      \* position of the codec scenario
    origin,        \* the value the scenario started from (a Timestamp or a string)
    wire,          \* the reward_start_time string on the wire
    time_stamp,    \* the contract-native Timestamp (nanoseconds, u64)
    codec_result,  \* outcome of the last decode: "none", "ok", "format_error", "panic"
    \* ---- message builder (CreateAllianceMsg) and the AllianceMsg envelope
    msg_call,      \* the last builder call: its name and arguments
    msg_out,       \* the value the builder returned
    msg_json,      \* its serialized form
    \* ---- query dispatcher (AllianceQuerier for QuerierWrapper)
    chain,         \* the host module's state
    calls,         \* number of dispatcher calls made
    host_queries,  \* number of queries that reached the chain
    host_last,     \* the last request the chain received
    last_call,     \* the last dispatcher call: method and arguments
    last_result,   \* what it returned to its caller
    prev_call,     \* the dispatcher call before it
    prev_result,   \* what that one returned
    \* ---- a client iterating a paginated query
    page_query,    \* the paginated method being iterated, its limit
    cursor,        \* the key the next request carries
    visited,       \* the entries received so far, in order
    page_pc        \* "idle", "paging", "done", "failed"

codec_vars == <<codec_pc, origin, wire, time_stamp, codec_result>>
msg_vars   == <<msg_call, msg_out, msg_json>>
query_vars == <<chain, calls, host_queries, host_last, last_call, last_result, prev_call, prev_result>>
page_vars  == <<page_query, cursor, visited, page_pc>>
vars       == <<codec_vars, msg_vars, query_vars, page_vars>>

\* Option<T>: None, or Some(v)
None == [none |-> TRUE]
Some(v) == [some |-> v]

(***************************************************************************)
(* Wide integers                                                           *)
(***************************************************************************)
Limb == 10^9

\* carry propagation: limbs back into 0 .. Limb-1 (\div and % floor)
WNorm(h, m, n) ==
    LET m1 == m + (n \div Limb)
    IN  <<h + (m1 \div Limb), m1 % Limb, n % Limb>>

WInt(i) == WNorm(0, 0, i)
WZero == <<0, 0, 0>>
WAdd(x, y) == WNorm(x[1] + y[1], x[2] + y[2], x[3] + y[3])
WSub(x, y) == WNorm(x[1] - y[1], x[2] - y[2], x[3] - y[3])
WLess(x, y) ==
    \/ x[1] < y[1]
    \/ x[1] = y[1] /\ x[2] < y[2]
    \/ x[1] = y[1] /\ x[2] = y[2] /\ x[3] < y[3]
WLeq(x, y) == x = y \/ WLess(x, y)

\* 2^63 and 2^64 in limbs
Two63 == <<9, 223372036, 854775808>>
U64Modulus == <<18, 446744073, 709551616>>
U64Max == WSub(U64Modulus, WInt(1))
I64Max == WSub(Two63, WInt(1))
I64Min == WSub(WZero, Two63)

\* x * 10^9 for |x| < 2^31: the limbs move up by one
TimesLimb(x) == <<x[1] * Limb + x[2], x[3], 0>>

\* d * 86400 for a day number d, |d| < 2^31 / 864:
\* with d = 1000 a + b, d * 86400 = (864 a) * 10^5 + 86400 b
DaysToSecs(d) ==
    LET c == (d \div 1000) * 864
    IN  WNorm(0, c \div 10000, (c % 10000) * 100000 + (d % 1000) * 86400)

InU64(x) == WLeq(WZero, x) /\ WLeq(x, U64Max)
InI64(x) == WLeq(I64Min, x) /\ WLeq(x, I64Max)

\* two's complement wrap of any integer into the i64 range
RECURSIVE WrapI64(_)
WrapI64(x) ==
    IF WLess(I64Max, x) THEN WrapI64(WSub(x, U64Modulus))
    ELSE IF WLess(x, I64Min) THEN WrapI64(WAdd(x, U64Modulus))
    ELSE x

\* `x as i64` for a u64 x, `x as u64` for an i64 x
AsI64(x) == IF WLess(I64Max, x) THEN WSub(x, U64Modulus) ELSE x
AsU64(x) == IF WLess(x, WZero) THEN WAdd(x, U64Modulus) ELSE x

(***************************************************************************)
(* Calendar: chrono's NaiveDate <-> day number.  A DateTime<Utc> is kept   *)
(* as chrono keeps it: a date (here the day number since 1970-01-01), the  *)
(* second of the day, and the nanosecond fraction (1e9 and more during a   *)
(* leap second).                                                           *)
(***************************************************************************)
SecsPerDay == 24 * 3600

CivilFromDays(days) ==
    LET z   == days + 719468
        era == z \div 146097
        doe == z - era * 146097
        yoe == (doe - doe \div 1460 + doe \div 36524 - doe \div 146096) \div 365
        doy == doe - (365 * yoe + yoe \div 4 - yoe \div 100)
        mp  == (5 * doy + 2) \div 153
        d   == doy - (153 * mp + 2) \div 5 + 1
        m   == IF mp < 10 THEN mp + 3 ELSE mp - 9
    IN  [year |-> yoe + era * 400 + (IF m <= 2 THEN 1 ELSE 0), month |-> m, day |-> d]

DaysFromCivil(y, m, d) ==
    LET yy  == IF m <= 2 THEN y - 1 ELSE y
        era == yy \div 400
        yoe == yy - era * 400
        doy == (153 * (IF m > 2 THEN m - 3 ELSE m + 9) + 2) \div 5 + d - 1
        doe == yoe * 365 + yoe \div 4 - yoe \div 100 + doy
    IN  era * 146097 + doe - 719468

IsLeapYear(y) == (y % 4 = 0 /\ y % 100 # 0) \/ y % 400 = 0
DaysInMonth(y, m) ==
    IF m = 2 THEN (IF IsLeapYear(y) THEN 29 ELSE 28)
    ELSE IF m \in {4, 6, 9, 11} THEN 30 ELSE 31

\* Utc.timestamp_nanos(nanos: i64): floor-divide into seconds and nanoseconds,
\* then seconds into days and second of day (10^9 = 11574 * 86400 + 6400)
UtcTimestampNanos(x) ==
    LET r == x[1] * 6400 + x[2]
    IN  [days |-> x[1] * 11574 + (r \div SecsPerDay), sod |-> r % SecsPerDay, frac |-> x[3]]

\* DateTime::timestamp(): whole seconds since the epoch, exact
DateTimeTimestamp(date) == WAdd(DaysToSecs(date.days), WInt(date.sod))

\* the instant a DateTime denotes, in nanoseconds since the epoch, exact
DateTimeInstant(date) == WAdd(TimesLimb(DateTimeTimestamp(date)), WInt(date.frac))

(***************************************************************************)
(* Formatting: DateTime<Utc> as serde writes it (chrono's RFC3339 form,    *)
(* fraction of 0, 3, 6 or 9 digits, offset "Z").                           *)
(***************************************************************************)
Digits == <<"0", "1", "2", "3", "4", "5", "6", "7", "8", "9">>

RECURSIVE Pad(_, _)
Pad(n, w) == IF w = 0 THEN <<>> ELSE Pad(n \div 10, w - 1) \o <<Digits[(n % 10) + 1]>>

FormatYear(y) ==
    IF y \in 0..9999 THEN Pad(y, 4)
    ELSE IF y < 0 THEN <<"-">> \o Pad(-y, 4)
    ELSE <<"+">> \o Pad(y, 5)

FormatFraction(nano) ==
    IF nano = 0 THEN <<>>
    ELSE IF nano % 1000000 = 0 THEN <<".">> \o Pad(nano \div 1000000, 3)
    ELSE IF nano % 1000 = 0 THEN <<".">> \o Pad(nano \div 1000, 6)
    ELSE <<".">> \o Pad(nano, 9)

FormatDateTimeUtc(date) ==
    LET c    == CivilFromDays(date.days)
        leap == date.frac >= Limb
        sec  == (date.sod % 60) + (IF leap THEN 1 ELSE 0)
        nano == IF leap THEN date.frac - Limb ELSE date.frac
    IN  FormatYear(c.year) \o <<"-">> \o Pad(c.month, 2) \o <<"-">> \o Pad(c.day, 2)
        \o <<"T">> \o Pad(date.sod \div 3600, 2) \o <<":">> \o Pad((date.sod \div 60) % 60, 2)
        \o <<":">> \o Pad(sec, 2) \o FormatFraction(nano) \o <<"Z">>

(***************************************************************************)
(* Parsing: DateTime<Utc>::deserialize reads a string and parses it as     *)
(* RFC3339 with any offset, then converts to UTC.                          *)
(***************************************************************************)
IsDigit(c) == \E i \in 1..10 : Digits[i] = c
DigitVal(c) == (CHOOSE i \in 1..10 : Digits[i] = c) - 1
AllDigits(cs) == \A i \in 1..Len(cs) : IsDigit(cs[i])

RECURSIVE NumVal(_)
NumVal(cs) ==
    IF cs = <<>> THEN 0
    ELSE 10 * NumVal(SubSeq(cs, 1, Len(cs) - 1)) + DigitVal(cs[Len(cs)])

\* number of leading digits of cs
RECURSIVE DigitRun(_)
DigitRun(cs) ==
    IF cs = <<>> \/ ~IsDigit(cs[1]) THEN 0 ELSE 1 + DigitRun(Tail(cs))

\* the fraction digits as nanoseconds: at most nine digits count
FractionNanos(ds) ==
    LET kept == SubSeq(ds, 1, IF Len(ds) > 9 THEN 9 ELSE Len(ds))
    IN  NumVal(kept) * 10^(9 - Len(kept))

\* the offset in seconds east of UTC, or None
ParseOffset(cs) ==
    IF cs \in {<<"Z">>, <<"z">>} THEN [secs |-> 0]
    ELSE IF /\ Len(cs) = 6
            /\ cs[1] \in {"+", "-"}
            /\ AllDigits(SubSeq(cs, 2, 3))
            /\ cs[4] = ":"
            /\ AllDigits(SubSeq(cs, 5, 6))
            /\ NumVal(SubSeq(cs, 2, 3)) <= 23
            /\ NumVal(SubSeq(cs, 5, 6)) <= 59
         THEN [secs |-> (IF cs[1] = "-" THEN -1 ELSE 1)
                        * (NumVal(SubSeq(cs, 2, 3)) * 3600 + NumVal(SubSeq(cs, 5, 6)) * 60)]
    ELSE None

\* the fields of an RFC3339 string, or None when it is not one
ParseRfc3339(s) ==
    IF ~ /\ Len(s) >= 20
         /\ AllDigits(SubSeq(s, 1, 4)) /\ s[5] = "-"
         /\ AllDigits(SubSeq(s, 6, 7)) /\ s[8] = "-"
         /\ AllDigits(SubSeq(s, 9, 10)) /\ s[11] \in {"T", "t"}
         /\ AllDigits(SubSeq(s, 12, 13)) /\ s[14] = ":"
         /\ AllDigits(SubSeq(s, 15, 16)) /\ s[17] = ":"
         /\ AllDigits(SubSeq(s, 18, 19))
    THEN None
    ELSE
    LET rest    == SubSeq(s, 20, Len(s))
        hasFrac == rest[1] = "."
        fracLen == IF hasFrac THEN DigitRun(Tail(rest)) ELSE 0
        fracDs  == SubSeq(rest, 2, 1 + fracLen)
        offCs   == IF hasFrac THEN SubSeq(rest, 2 + fracLen, Len(rest)) ELSE rest
        off     == ParseOffset(offCs)
        y  == NumVal(SubSeq(s, 1, 4))
        mo == NumVal(SubSeq(s, 6, 7))
        d  == NumVal(SubSeq(s, 9, 10))
        h  == NumVal(SubSeq(s, 12, 13))
        mi == NumVal(SubSeq(s, 15, 16))
        se == NumVal(SubSeq(s, 18, 19))
    IN  IF \/ hasFrac /\ fracLen = 0
           \/ off = None
           \/ mo \notin 1..12
           \/ d < 1 \/ (mo \in 1..12 /\ d > DaysInMonth(y, mo))
           \/ h > 23 \/ mi > 59 \/ se > 60
        THEN None
        ELSE [year |-> y, month |-> mo, day |-> d, hour |-> h, minute |-> mi,
              second |-> se, nano |-> FractionNanos(fracDs), offset |-> off.secs]

\* the parsed local time with its offset, as a DateTime<Utc>
ToUtc(p) ==
    LET leap == p.second = 60
        sodx == p.hour * 3600 + p.minute * 60 + (IF leap THEN 59 ELSE p.second) - p.offset
    IN  [days |-> DaysFromCivil(p.year, p.month, p.day) + (sodx \div SecsPerDay),
         sod  |-> sodx % SecsPerDay,
         frac |-> p.nano + (IF leap THEN Limb ELSE 0)]

(***************************************************************************)
(* The wire codec of AllianceAsset::reward_start_time                      *)
(***************************************************************************)

\* lib.rs:155  Utc.timestamp_nanos(time_stamp.nanos() as i64), then
\* lib.rs:156  date.serialize(serializer): the string written
serialize_time_stamp(t) == FormatDateTimeUtc(UtcTimestampNanos(AsI64(t)))

\* lib.rs:166  date.timestamp_nanos(): chrono computes
\*     self.timestamp() * 1_000_000_000 + self.timestamp_subsec_nanos()
\* in i64.  When the product or the sum leaves the i64 range the outcome is
\* the build's: a panic (overflow checks on, or chrono's checked arithmetic),
\* or the two's complement wrap (overflow checks off).
TimestampNanosOutcomes(date) ==
    LET prod == TimesLimb(DateTimeTimestamp(date))
        sum  == WAdd(prod, WInt(date.frac))
    IN  IF InI64(prod) /\ InI64(sum)
        THEN {[kind |-> "ok", nanos |-> sum]}
        ELSE {[kind |-> "panic"], [kind |-> "ok", nanos |-> WrapI64(sum)]}

\* a decoder that, for a string that does not parse, answers the default
\* Timestamp instead of Err
deserialize_time_stamp_or_default(s) ==
    LET p == ParseRfc3339(s)
    IN  IF p = None THEN {[kind |-> "ok", nanos |-> WZero]}
        ELSE {IF o.kind = "ok" THEN [kind |-> "ok", nanos |-> AsU64(o.nanos)] ELSE o :
                 o \in TimestampNanosOutcomes(ToUtc(p))}

\* lib.rs:165  DateTime::<Utc>::deserialize(deserializer)? : Err on a string that
\*             does not parse
\* lib.rs:166  Ok(Timestamp::from_nanos(date.timestamp_nanos() as u64))
deserialize_time_stamp(s) ==
    LET p == ParseRfc3339(s)
    IN  IF p = None THEN {[kind |-> "format_error"]}
        ELSE {IF o.kind = "ok" THEN [kind |-> "ok", nanos |-> AsU64(o.nanos)] ELSE o :
                 o \in TimestampNanosOutcomes(ToUtc(p))}

\* what an RFC3339 string denotes: nanoseconds from the epoch to its instant
IsRfc3339(s) == ParseRfc3339(s) # None
InstantOf(s) == DateTimeInstant(ToUtc(ParseRfc3339(s)))

\* ---- the inputs of the codec scenarios ---------------------------------
\* each base timestamp is tried with its neighbours up to Spread away
Spread == 1

TimestampBases ==
    { WZero,                              \* the epoch
      <<0, 0, 500000000>>,                \* half a second
      <<0, 1, 0>>,                        \* one second
      <<1, 686075449, 956787974>>,        \* 1686075449956787974 (spec.md section 8)
      <<1, 686076649, 956787974>>,        \* 2023-06-06T18:37:29.956787974Z
      <<1, 686076649, 956787000>>,        \* microseconds
      <<1, 686076649, 956000000>>,        \* milliseconds
      <<1, 686076649, 0>>,                \* whole seconds
      <<9, 223372036, 0>>,                \* last whole second below 2^63
      Two63,                              \* 2^63
      <<9, 223372037, 0>>,                \* first whole second above 2^63
      <<10, 413792000, 0>>,               \* 2300-01-01T00:00:00Z
      <<18, 446744073, 0>>,               \* last whole second of the u64 range
      U64Max }                            \* 2^64 - 1

TimestampInputs ==
    {t \in {WAdd(b, WInt(k)) : b \in TimestampBases, k \in (-Spread)..Spread} : InU64(t)}

ValidStrings ==
    {
      \* "2023-06-06T18:37:29.956787974Z" : the example of lib.rs:140
      <<"2", "0", "2", "3", "-", "0", "6", "-", "0", "6", "T", "1", "8", ":", "3", "7", ":", "2", "9", ".", "9", "5", "6", "7", "8", "7", "9", "7", "4", "Z">>,
      \* "2023-06-06T18:17:29.956787974Z" : 1686075449956787974
      <<"2", "0", "2", "3", "-", "0", "6", "-", "0", "6", "T", "1", "8", ":", "1", "7", ":", "2", "9", ".", "9", "5", "6", "7", "8", "7", "9", "7", "4", "Z">>,
      \* "2023-06-06T20:37:29.956787974+02:00" : the same instant as the first, offset +02:00
      <<"2", "0", "2", "3", "-", "0", "6", "-", "0", "6", "T", "2", "0", ":", "3", "7", ":", "2", "9", ".", "9", "5", "6", "7", "8", "7", "9", "7", "4", "+", "0", "2", ":", "0", "0">>,
      \* "2023-06-06T13:07:29.956787974-05:30" : the same instant as the first, offset -05:30
      <<"2", "0", "2", "3", "-", "0", "6", "-", "0", "6", "T", "1", "3", ":", "0", "7", ":", "2", "9", ".", "9", "5", "6", "7", "8", "7", "9", "7", "4", "-", "0", "5", ":", "3", "0">>,
      \* "2023-06-06t18:37:29.956z" : lower case, milliseconds
      <<"2", "0", "2", "3", "-", "0", "6", "-", "0", "6", "t", "1", "8", ":", "3", "7", ":", "2", "9", ".", "9", "5", "6", "z">>,
      \* "2023-06-06T18:37:29.956787Z" : microseconds
      <<"2", "0", "2", "3", "-", "0", "6", "-", "0", "6", "T", "1", "8", ":", "3", "7", ":", "2", "9", ".", "9", "5", "6", "7", "8", "7", "Z">>,
      \* "2023-06-06T18:37:29.5Z" : one fraction digit
      <<"2", "0", "2", "3", "-", "0", "6", "-", "0", "6", "T", "1", "8", ":", "3", "7", ":", "2", "9", ".", "5", "Z">>,
      \* "2023-06-06T18:37:29Z" : no fraction
      <<"2", "0", "2", "3", "-", "0", "6", "-", "0", "6", "T", "1", "8", ":", "3", "7", ":", "2", "9", "Z">>,
      \* "2024-02-29T12:00:00+00:00" : leap day
      <<"2", "0", "2", "4", "-", "0", "2", "-", "2", "9", "T", "1", "2", ":", "0", "0", ":", "0", "0", "+", "0", "0", ":", "0", "0">>,
      \* "2016-12-31T23:59:60Z" : leap second
      <<"2", "0", "1", "6", "-", "1", "2", "-", "3", "1", "T", "2", "3", ":", "5", "9", ":", "6", "0", "Z">>,
      \* "1970-01-01T00:00:00Z" : the epoch
      <<"1", "9", "7", "0", "-", "0", "1", "-", "0", "1", "T", "0", "0", ":", "0", "0", ":", "0", "0", "Z">>,
      \* "1970-01-01T01:00:00+01:00" : the epoch, offset +01:00
      <<"1", "9", "7", "0", "-", "0", "1", "-", "0", "1", "T", "0", "1", ":", "0", "0", ":", "0", "0", "+", "0", "1", ":", "0", "0">>,
      \* "1969-12-31T23:59:59.999999999Z" : one nanosecond before the epoch
      <<"1", "9", "6", "9", "-", "1", "2", "-", "3", "1", "T", "2", "3", ":", "5", "9", ":", "5", "9", ".", "9", "9", "9", "9", "9", "9", "9", "9", "9", "Z">>,
      \* "1969-07-20T20:17:40Z" : before the epoch
      <<"1", "9", "6", "9", "-", "0", "7", "-", "2", "0", "T", "2", "0", ":", "1", "7", ":", "4", "0", "Z">>,
      \* "1677-09-21T00:12:44Z" : first whole second of the i64 range
      <<"1", "6", "7", "7", "-", "0", "9", "-", "2", "1", "T", "0", "0", ":", "1", "2", ":", "4", "4", "Z">>,
      \* "1677-09-21T00:12:43.145224192Z" : i64::MIN nanoseconds
      <<"1", "6", "7", "7", "-", "0", "9", "-", "2", "1", "T", "0", "0", ":", "1", "2", ":", "4", "3", ".", "1", "4", "5", "2", "2", "4", "1", "9", "2", "Z">>,
      \* "1677-09-21T00:12:43.145224191Z" : one nanosecond below i64::MIN
      <<"1", "6", "7", "7", "-", "0", "9", "-", "2", "1", "T", "0", "0", ":", "1", "2", ":", "4", "3", ".", "1", "4", "5", "2", "2", "4", "1", "9", "1", "Z">>,
      \* "1600-01-01T00:00:00.000000001Z" : before the i64 range
      <<"1", "6", "0", "0", "-", "0", "1", "-", "0", "1", "T", "0", "0", ":", "0", "0", ":", "0", "0", ".", "0", "0", "0", "0", "0", "0", "0", "0", "1", "Z">>,
      \* "0000-01-01T00:00:00Z" : year 0
      <<"0", "0", "0", "0", "-", "0", "1", "-", "0", "1", "T", "0", "0", ":", "0", "0", ":", "0", "0", "Z">>,
      \* "2262-04-11T23:47:16.854775807Z" : i64::MAX nanoseconds
      <<"2", "2", "6", "2", "-", "0", "4", "-", "1", "1", "T", "2", "3", ":", "4", "7", ":", "1", "6", ".", "8", "5", "4", "7", "7", "5", "8", "0", "7", "Z">>,
      \* "2262-04-11T23:47:16.854775808Z" : 2^63 nanoseconds
      <<"2", "2", "6", "2", "-", "0", "4", "-", "1", "1", "T", "2", "3", ":", "4", "7", ":", "1", "6", ".", "8", "5", "4", "7", "7", "5", "8", "0", "8", "Z">>,
      \* "2300-01-01T00:00:00.000000001Z" : after the i64 range, inside the u64 range
      <<"2", "3", "0", "0", "-", "0", "1", "-", "0", "1", "T", "0", "0", ":", "0", "0", ":", "0", "0", ".", "0", "0", "0", "0", "0", "0", "0", "0", "1", "Z">>,
      \* "2554-07-21T23:34:33.709551615Z" : u64::MAX nanoseconds
      <<"2", "5", "5", "4", "-", "0", "7", "-", "2", "1", "T", "2", "3", ":", "3", "4", ":", "3", "3", ".", "7", "0", "9", "5", "5", "1", "6", "1", "5", "Z">>,
      \* "9999-12-31T23:59:59.999999999Z" : the last RFC3339 instant
      <<"9", "9", "9", "9", "-", "1", "2", "-", "3", "1", "T", "2", "3", ":", "5", "9", ":", "5", "9", ".", "9", "9", "9", "9", "9", "9", "9", "9", "9", "Z">>
    }

InvalidStrings ==
    {
      \* "" : empty
      <<>>,
      \* "not a timestamp" : no date at all
      <<"n", "o", "t", " ", "a", " ", "t", "i", "m", "e", "s", "t", "a", "m", "p">>,
      \* "1686075449956787974" : a nanosecond count, not a date
      <<"1", "6", "8", "6", "0", "7", "5", "4", "4", "9", "9", "5", "6", "7", "8", "7", "9", "7", "4">>,
      \* "2023-06-06" : date only
      <<"2", "0", "2", "3", "-", "0", "6", "-", "0", "6">>,
      \* "2023-06-06T18:37:29" : no offset
      <<"2", "0", "2", "3", "-", "0", "6", "-", "0", "6", "T", "1", "8", ":", "3", "7", ":", "2", "9">>,
      \* "2023-06-06T18:37:29.Z" : empty fraction
      <<"2", "0", "2", "3", "-", "0", "6", "-", "0", "6", "T", "1", "8", ":", "3", "7", ":", "2", "9", ".", "Z">>,
      \* "2023-06-06T18:37:29+2:00" : one-digit offset hour
      <<"2", "0", "2", "3", "-", "0", "6", "-", "0", "6", "T", "1", "8", ":", "3", "7", ":", "2", "9", "+", "2", ":", "0", "0">>,
      \* "2023-13-06T18:37:29Z" : month 13
      <<"2", "0", "2", "3", "-", "1", "3", "-", "0", "6", "T", "1", "8", ":", "3", "7", ":", "2", "9", "Z">>,
      \* "2023-02-29T00:00:00Z" : 29 February of a common year
      <<"2", "0", "2", "3", "-", "0", "2", "-", "2", "9", "T", "0", "0", ":", "0", "0", ":", "0", "0", "Z">>,
      \* "2023-06-06T24:00:00Z" : hour 24
      <<"2", "0", "2", "3", "-", "0", "6", "-", "0", "6", "T", "2", "4", ":", "0", "0", ":", "0", "0", "Z">>,
      \* "2023-06-06T18:60:29Z" : minute 60
      <<"2", "0", "2", "3", "-", "0", "6", "-", "0", "6", "T", "1", "8", ":", "6", "0", ":", "2", "9", "Z">>,
      \* "2023-06-06T18:37:29Zjunk" : trailing text
      <<"2", "0", "2", "3", "-", "0", "6", "-", "0", "6", "T", "1", "8", ":", "3", "7", ":", "2", "9", "Z", "j", "u", "n", "k">>
    }

StringInputs == ValidStrings \cup InvalidStrings

\* ---- the codec's steps ----------------------------------------------------
CodecInit ==
    /\ codec_pc = "idle"
    /\ origin = None
    /\ wire = <<>>
    /\ time_stamp = WZero
    /\ codec_result = "none"

\* the contract serializes an AllianceAsset whose reward_start_time is t
Encode ==
    /\ codec_pc = "idle"
    /\ \E t \in TimestampInputs :
          /\ origin' = [kind |-> "timestamp", nanos |-> t]
          /\ time_stamp' = t
          /\ wire' = serialize_time_stamp(t)
    /\ codec_pc' = "encoded"
    /\ UNCHANGED <<codec_result, msg_vars, query_vars, page_vars>>

\* the host module answers with an AllianceAsset whose reward_start_time is s
HostSends ==
    /\ codec_pc = "idle"
    /\ \E s \in StringInputs :
          /\ origin' = [kind |-> "string", text |-> s]
          /\ wire' = s
    /\ codec_pc' = "received"
    /\ UNCHANGED <<time_stamp, codec_result, msg_vars, query_vars, page_vars>>

\* serde deserializes the reward_start_time on the wire
Decode ==
    /\ codec_pc \in {"encoded", "received"}
    /\ \E o \in deserialize_time_stamp(wire) :
          /\ codec_result' = o.kind
          /\ time_stamp' = IF o.kind = "ok" THEN o.nanos ELSE time_stamp
    /\ codec_pc' = "decoded"
    /\ UNCHANGED <<origin, wire, msg_vars, query_vars, page_vars>>

\* the contract serializes the Timestamp it decoded from the host's string
Reencode ==
    /\ codec_pc = "decoded"
    /\ codec_result = "ok"
    /\ origin.kind = "string"
    /\ wire' = serialize_time_stamp(time_stamp)
    /\ codec_pc' = "reencoded"
    /\ UNCHANGED <<origin, time_stamp, codec_result, msg_vars, query_vars, page_vars>>

(***************************************************************************)
(* AllianceMsg, its builders (CreateAllianceMsg) and its serde envelope    *)
(***************************************************************************)
\* the variants of AllianceMsg, by their Rust identifiers
Delegate == <<"D", "e", "l", "e", "g", "a", "t", "e">>
Undelegate == <<"U", "n", "d", "e", "l", "e", "g", "a", "t", "e">>
Redelegate == <<"R", "e", "d", "e", "l", "e", "g", "a", "t", "e">>
ClaimDelegationRewards ==
    <<"C", "l", "a", "i", "m", "D", "e", "l", "e", "g", "a", "t", "i", "o", "n", "R", "e", "w", "a", "r", "d", "s">>

\* T: From<AllianceMsg>: the host-level message that carries the AllianceMsg
Into(msg) == [custom |-> msg]

alliance_delegate(delegator_address, validator_address, amount) ==
    Into([variant |-> Delegate,
          fields  |-> [delegator_address |-> delegator_address,
                       validator_address |-> validator_address,
                       amount |-> amount]])

alliance_undelegate(delegator_address, validator_address, amount) ==
    Into([variant |-> Undelegate,
          fields  |-> [delegator_address |-> delegator_address,
                       validator_address |-> validator_address,
                       amount |-> amount]])

\* a builder that swaps the source and the destination validator
alliance_redelegate_swapped(delegator_address, validator_src_address, validator_dst_address, amount) ==
    Into([variant |-> Redelegate,
          fields  |-> [delegator_address |-> delegator_address,
                       validator_src_address |-> validator_dst_address,
                       validator_dst_address |-> validator_src_address,
                       amount |-> amount]])

alliance_redelegate(delegator_address, validator_src_address, validator_dst_address, amount) ==
    Into([variant |-> Redelegate,
          fields  |-> [delegator_address |-> delegator_address,
                       validator_src_address |-> validator_src_address,
                       validator_dst_address |-> validator_dst_address,
                       amount |-> amount]])

alliance_claim_deligation_rewards(delegator_address, validator_address, denom) ==
    Into([variant |-> ClaimDelegationRewards,
          fields  |-> [delegator_address |-> delegator_address,
                       validator_address |-> validator_address,
                       denom |-> denom]])

\* #[cw_serde] derives Serialize with #[serde(rename_all = "snake_case")]: a
\* variant's name on the wire is its identifier with every upper case letter
\* lowered and, except at the start, preceded by "_"
UpperCase == <<"A", "B", "C", "D", "E", "F", "G", "H", "I", "J", "K", "L", "M", "N", "O", "P", "Q", "R", "S", "T", "U", "V", "W", "X", "Y", "Z">>
LowerCase == <<"a", "b", "c", "d", "e", "f", "g", "h", "i", "j", "k", "l", "m", "n", "o", "p", "q", "r", "s", "t", "u", "v", "w", "x", "y", "z">>
IsUpper(c) == \E i \in 1..26 : UpperCase[i] = c
ToLower(c) == IF IsUpper(c) THEN LowerCase[CHOOSE i \in 1..26 : UpperCase[i] = c] ELSE c

RECURSIVE SnakeFrom(_, _)
SnakeFrom(cs, i) ==
    IF i > Len(cs) THEN <<>>
    ELSE (IF i > 1 /\ IsUpper(cs[i]) THEN <<"_">> ELSE <<>>)
         \o <<ToLower(cs[i])>> \o SnakeFrom(cs, i + 1)

\* an envelope without rename_all: the identifier itself is the wire name
RenameVariant_identifier(ident) == ident

RenameVariant(ident) == SnakeFrom(ident, 1)

\* serde's externally tagged form of an enum value: one tag, the variant's
\* wire name, with the variant's fields under it
SerializeAllianceMsg(msg) == [tag |-> RenameVariant(msg.variant), content |-> msg.fields]

\* ---- the arguments tried ---------------------------------------------------
MaxAmount == 2

\* no argument is validated: the empty address and the zero amount are inputs too
Addrs  == {"", "a1", "v1"}
Denoms == {"", "uusd"}
Coins  == {[denom |-> d, amount |-> a] : d \in Denoms, a \in 0..MaxAmount}

MsgInit ==
    /\ msg_call = None
    /\ msg_out = None
    /\ msg_json = None

AllianceDelegate ==
    \E d \in Addrs, v \in Addrs, a \in Coins :
        /\ msg_call' = [method |-> "alliance_delegate", args |-> <<d, v, a>>]
        /\ msg_out' = alliance_delegate(d, v, a)
        /\ msg_json' = None
        /\ UNCHANGED <<codec_vars, query_vars, page_vars>>

AllianceUndelegate ==
    \E d \in Addrs, v \in Addrs, a \in Coins :
        /\ msg_call' = [method |-> "alliance_undelegate", args |-> <<d, v, a>>]
        /\ msg_out' = alliance_undelegate(d, v, a)
        /\ msg_json' = None
        /\ UNCHANGED <<codec_vars, query_vars, page_vars>>

AllianceRedelegate ==
    \E d \in Addrs, vs \in Addrs, vd \in Addrs, a \in Coins :
        /\ msg_call' = [method |-> "alliance_redelegate", args |-> <<d, vs, vd, a>>]
        /\ msg_out' = alliance_redelegate(d, vs, vd, a)
        /\ msg_json' = None
        /\ UNCHANGED <<codec_vars, query_vars, page_vars>>

AllianceClaimDelegationRewards ==
    \E d \in Addrs, v \in Addrs, denom \in Denoms :
        /\ msg_call' = [method |-> "alliance_claim_deligation_rewards", args |-> <<d, v, denom>>]
        /\ msg_out' = alliance_claim_deligation_rewards(d, v, denom)
        /\ msg_json' = None
        /\ UNCHANGED <<codec_vars, query_vars, page_vars>>

\* the contract hands the message to the host: its AllianceMsg is serialized
SerializeMsg ==
    /\ msg_out # None
    /\ msg_json = None
    /\ msg_json' = SerializeAllianceMsg(msg_out.custom)
    /\ UNCHANGED <<msg_call, msg_out, codec_vars, query_vars, page_vars>>

(***************************************************************************)
(* AllianceQuery and the response types                                    *)
(***************************************************************************)
\* #[returns(..)] of each AllianceQuery variant (lib.rs:36-74)
QueryResponses ==
    [Alliance                       |-> "AllianceAllianceResponse",
     Alliances                      |-> "AllianceAlliancesResponse",
     AlliancesDelegations           |-> "AllianceAlliancesDelegationsResponse",
     AlliancesDelegationByValidator |-> "AllianceAlliancesDelegationsResponse",
     Delegation                     |-> "SingleDelegationResponse",
     DelegationRewards              |-> "RewardsResponse",
     Params                         |-> "AllianceParamsResponse",
     Validator                      |-> "ValidatorResponse",
     Validators                     |-> "AllValidatorsResponse"]

\* the fields of each response struct: those without Option are required, and
\* #[cw_serde] sets deny_unknown_fields
ResponseFields ==
    [AllianceAllianceResponse |-> [required |-> {"alliance"}, optional |-> {}],
     AllianceAlliancesResponse |-> [required |-> {"alliances"}, optional |-> {"pagination"}],
     AllianceAlliancesDelegationsResponse |->
         [required |-> {}, optional |-> {"delegations", "pagination"}],
     RewardsResponse |-> [required |-> {"rewards"}, optional |-> {}],
     SingleDelegationResponse |-> [required |-> {"delegation"}, optional |-> {}],
     AllianceParamsResponse |-> [required |-> {"params"}, optional |-> {}],
     ValidatorResponse |->
         [required |-> {"validator_addr", "total_delegation_shares",
                        "validator_shares", "total_staked"},
          optional |-> {}],
     AllValidatorsResponse |-> [required |-> {"validators"}, optional |-> {"pagination"}]]

\* T: CustomQuery + From<AllianceQuery>: the custom-query envelope
IntoCustom(q) == [custom |-> q]

\* ---- the nine methods: the request each builds, the type it decodes into ----
query_alliance_alliance(denom) ==
    [request |-> IntoCustom([variant |-> "Alliance", denom |-> denom]),
     returns |-> "AllianceAllianceResponse"]

\* a method that sends the page size but not the key
query_alliance_alliances_without_key(pagination) ==
    [request |-> IntoCustom([variant |-> "Alliances",
                             pagination |-> IF pagination = None THEN None
                                            ELSE Some([pagination.some EXCEPT !.key = None])]),
     returns |-> "AllianceAlliancesResponse"]

query_alliance_alliances(pagination) ==
    [request |-> IntoCustom([variant |-> "Alliances", pagination |-> pagination]),
     returns |-> "AllianceAlliancesResponse"]

query_alliance_alliances_delegations(pagination) ==
    [request |-> IntoCustom([variant |-> "AlliancesDelegations", pagination |-> pagination]),
     returns |-> "AllianceAlliancesDelegationsResponse"]

query_alliance_alliances_delegation_by_validator(delegator_addr, validator_addr, pagination) ==
    [request |-> IntoCustom([variant |-> "AlliancesDelegationByValidator",
                             delegator_addr |-> delegator_addr,
                             validator_addr |-> validator_addr,
                             pagination |-> pagination]),
     returns |-> "AllianceAlliancesDelegationsResponse"]

query_alliance_delegation(delegator_addr, validator_addr, denom) ==
    [request |-> IntoCustom([variant |-> "Delegation",
                             delegator_addr |-> delegator_addr,
                             validator_addr |-> validator_addr,
                             denom |-> denom]),
     returns |-> "SingleDelegationResponse"]

\* a method that builds its neighbour's variant
query_alliance_delegation_rewards_as_delegation(delegator_addr, validator_addr, denom) ==
    [request |-> IntoCustom([variant |-> "Delegation",
                             delegator_addr |-> delegator_addr,
                             validator_addr |-> validator_addr,
                             denom |-> denom]),
     returns |-> "RewardsResponse"]

query_alliance_delegation_rewards(delegator_addr, validator_addr, denom) ==
    [request |-> IntoCustom([variant |-> "DelegationRewards",
                             delegator_addr |-> delegator_addr,
                             validator_addr |-> validator_addr,
                             denom |-> denom]),
     returns |-> "RewardsResponse"]

query_alliance_params ==
    [request |-> IntoCustom([variant |-> "Params"]),
     returns |-> "AllianceParamsResponse"]

query_alliance_validator(validator_addr) ==
    [request |-> IntoCustom([variant |-> "Validator", validator_addr |-> validator_addr]),
     returns |-> "ValidatorResponse"]

query_alliance_validators(pagination) ==
    [request |-> IntoCustom([variant |-> "Validators", pagination |-> pagination]),
     returns |-> "AllValidatorsResponse"]

(***************************************************************************)
(* The host module: the collaborator that answers the queries.  Its state  *)
(* is the registered alliances, the delegations and the validators; a      *)
(* list query is answered a page at a time.                                *)
(***************************************************************************)
Min(a, b) == IF a <= b THEN a ELSE b

\* one page of list: the cursor is the position of the first entry of the page;
\* next_key is present iff entries follow, total iff count_total was asked
HostPage(list, pagination) ==
    LET p     == IF pagination = None THEN None ELSE pagination.some
        start == IF p = None \/ p.key = None THEN 1 ELSE p.key.some
        lim   == IF p = None \/ p.limit = None THEN Len(list) ELSE p.limit.some
        last  == Min(start + lim - 1, Len(list))
    IN  [items |-> SubSeq(list, start, last),
         pagination |->
             Some([next_key |-> IF last < Len(list) THEN Some(last + 1) ELSE None,
                   total    |-> IF p # None /\ p.count_total = Some(TRUE)
                                THEN Some(Len(list)) ELSE None])]

RECURSIVE SelectSeqBy(_, _, _)
SelectSeqBy(list, delegator, validator) ==
    IF list = <<>> THEN <<>>
    ELSE (IF list[1].delegation.delegator_address = delegator
             /\ list[1].delegation.validator_address = validator
          THEN <<list[1]>> ELSE <<>>)
         \o SelectSeqBy(Tail(list), delegator, validator)

HostValidator(c, v) ==
    LET staked == SelectSeq(c.delegations, LAMBDA d : d.delegation.validator_address = v)
        shares == [i \in 1..Len(staked) |->
                      [denom |-> staked[i].delegation.denom,
                       amount |-> staked[i].delegation.shares]]
    IN  [validator_addr |-> v, total_delegation_shares |-> shares,
         validator_shares |-> shares, total_staked |-> shares]

\* the answer to a request: an error for an unknown entity, else the payload
HostAnswer(c, request) ==
    LET q == request.custom
        v == q.variant
    IN  IF v = "Alliance" THEN
            IF \E i \in 1..Len(c.alliances) : c.alliances[i].denom = q.denom
            THEN [ok |-> TRUE, payload |->
                    [alliance |-> c.alliances[CHOOSE i \in 1..Len(c.alliances) :
                                                 c.alliances[i].denom = q.denom]]]
            ELSE [ok |-> FALSE]
        ELSE IF v = "Alliances" THEN
            LET pg == HostPage(c.alliances, q.pagination)
            IN  [ok |-> TRUE, payload |-> [alliances |-> pg.items, pagination |-> pg.pagination]]
        ELSE IF v = "AlliancesDelegations" THEN
            LET pg == HostPage(c.delegations, q.pagination)
            IN  [ok |-> TRUE, payload |-> [delegations |-> pg.items, pagination |-> pg.pagination]]
        ELSE IF v = "AlliancesDelegationByValidator" THEN
            LET pg == HostPage(SelectSeqBy(c.delegations, q.delegator_addr, q.validator_addr),
                               q.pagination)
            IN  [ok |-> TRUE, payload |-> [delegations |-> pg.items, pagination |-> pg.pagination]]
        ELSE IF v \in {"Delegation", "DelegationRewards"} THEN
            LET hit == {i \in 1..Len(c.delegations) :
                           /\ c.delegations[i].delegation.delegator_address = q.delegator_addr
                           /\ c.delegations[i].delegation.validator_address = q.validator_addr
                           /\ c.delegations[i].delegation.denom = q.denom}
            IN  IF hit = {} THEN [ok |-> FALSE]
                ELSE IF v = "Delegation"
                THEN [ok |-> TRUE, payload |-> [delegation |-> c.delegations[CHOOSE i \in hit : TRUE]]]
                ELSE [ok |-> TRUE, payload |->
                        [rewards |-> <<c.delegations[CHOOSE i \in hit : TRUE].balance>>]]
        ELSE IF v = "Params" THEN
            [ok |-> TRUE, payload |->
                [params |-> [reward_delay_time |-> 0, take_rate_claim_interval |-> 0,
                             last_take_rate_claim_time |-> "0001-01-01T00:00:00Z"]]]
        ELSE IF v = "Validator" THEN
            IF \E i \in 1..Len(c.validators) : c.validators[i] = q.validator_addr
            THEN [ok |-> TRUE, payload |-> HostValidator(c, q.validator_addr)]
            ELSE [ok |-> FALSE]
        ELSE
            LET pg == HostPage(c.validators, q.pagination)
            IN  [ok |-> TRUE, payload |->
                    [validators |-> [i \in 1..Len(pg.items) |-> HostValidator(c, pg.items[i])],
                     pagination |-> pg.pagination]]

(***************************************************************************)
(* QuerierWrapper::query: one raw query against the chain, then the        *)
(* payload decoded into the method's response type                         *)
(***************************************************************************)
\* an AllianceAsset: reward_start_time goes through deserialize_time_stamp
\* (the other fields of the asset play no part here and are left out)
DecodeAsset(a) ==
    {IF o.kind = "ok"
     THEN [kind |-> "ok", value |-> [denom |-> a.denom, reward_start_time |-> o.nanos]]
     ELSE IF o.kind = "format_error" THEN [kind |-> "error", error |-> "parse"]
     ELSE [kind |-> "panic"] :
        o \in deserialize_time_stamp(a.reward_start_time)}

\* Vec<AllianceAsset>: element by element, the first failure ends the decoding
RECURSIVE DecodeAssets(_)
DecodeAssets(list) ==
    IF list = <<>> THEN {[kind |-> "ok", value |-> <<>>]}
    ELSE UNION {IF h.kind # "ok" THEN {h}
                ELSE {IF t.kind # "ok" THEN t
                      ELSE [kind |-> "ok", value |-> <<h.value>> \o t.value] :
                         t \in DecodeAssets(Tail(list))} :
                   h \in DecodeAsset(list[1])}

\* from_binary::<T>: every required field present, no unknown field, an absent
\* Option field is None
FromBinary(payload, T) ==
    LET schema == ResponseFields[T]
        known  == schema.required \cup schema.optional
        filled == [f \in known |-> IF f \in DOMAIN payload THEN payload[f] ELSE None]
    IN  IF ~(schema.required \subseteq DOMAIN payload /\ DOMAIN payload \subseteq known)
        THEN {[kind |-> "error", error |-> "parse"]}
        ELSE IF T = "AllianceAllianceResponse"
        THEN {IF o.kind = "ok"
              THEN [kind |-> "ok", type |-> T, value |-> [alliance |-> o.value]]
              ELSE o : o \in DecodeAsset(payload.alliance)}
        ELSE IF T = "AllianceAlliancesResponse"
        THEN {IF o.kind = "ok"
              THEN [kind |-> "ok", type |-> T,
                    value |-> [alliances |-> o.value, pagination |-> filled.pagination]]
              ELSE o : o \in DecodeAssets(payload.alliances)}
        ELSE {[kind |-> "ok", type |-> T, value |-> filled]}

\* a query that answers an empty value when the host rejects the request
QuerierWrapperQuery_or_default(c, request, T) ==
    LET a == HostAnswer(c, request)
    IN  IF ~a.ok THEN {[kind |-> "ok", type |-> T, value |-> None]}
        ELSE FromBinary(a.payload, T)

\* self.query(&custom_query.into()): the host's rejection and a failed decoding
\* both become the Err the caller receives
QuerierWrapperQuery(c, request, T) ==
    LET a == HostAnswer(c, request)
    IN  IF ~a.ok THEN {[kind |-> "error", error |-> "host"]}
        ELSE FromBinary(a.payload, T)

\* ---- the chain states and the arguments tried ------------------------------
MaxAssets == 2
MaxCalls == 2

DenomList == <<"uluna", "uusd", "uatom", "uosmo", "ukuji", "uinj">>
ValidatorList == <<"v1", "v2", "v3", "v4", "v5", "v6">>

\* "2023-06-06T18:37:29.956787974Z"
GoodTime ==
    <<"2", "0", "2", "3", "-", "0", "6", "-", "0", "6", "T", "1", "8", ":", "3", "7", ":", "2", "9", ".", "9", "5", "6", "7", "8", "7", "9", "7", "4", "Z">>
\* "2023-13-06T18:37:29Z": month 13
BadTime ==
    <<"2", "0", "2", "3", "-", "1", "3", "-", "0", "6", "T", "1", "8", ":", "3", "7", ":", "2", "9", "Z">>
HostTimes == {GoodTime, BadTime}

HostDelegation(delegator, validator, denom) ==
    [delegation |-> [delegator_address |-> delegator, validator_address |-> validator,
                     denom |-> denom, shares |-> 1],
     balance |-> [denom |-> denom, amount |-> 1]]

PageRequest(key, limit) ==
    Some([key |-> key, offset |-> None, limit |-> Some(limit),
          count_total |-> Some(TRUE), reverse |-> None])

QueryDenoms == {DenomList[1], DenomList[2]}
QueryPaginations == {None, PageRequest(None, 1)}

DispatcherInit ==
    /\ calls = 0
    /\ host_queries = 0
    /\ host_last = None
    /\ last_call = None
    /\ last_result = None
    /\ prev_call = None
    /\ prev_result = None

QueryInit ==
    /\ chain = [alliances |-> <<>>, delegations |-> <<>>, validators |-> <<ValidatorList[1]>>]
    /\ DispatcherInit

\* ---- the host module changes its state between the contract's calls --------
HostCreateAlliance ==
    /\ Len(chain.alliances) < MaxAssets
    /\ \E s \in HostTimes :
          chain' = [chain EXCEPT !.alliances =
                       Append(@, [denom |-> DenomList[Len(@) + 1], reward_start_time |-> s])]
    /\ UNCHANGED <<calls, host_queries, host_last, last_call, last_result, prev_call, prev_result>>
    /\ UNCHANGED <<codec_vars, msg_vars, page_vars>>

HostDelegate ==
    /\ chain.delegations = <<>>
    /\ chain' = [chain EXCEPT !.delegations =
                    <<HostDelegation("a1", ValidatorList[1], DenomList[1])>>]
    /\ UNCHANGED <<calls, host_queries, host_last, last_call, last_result, prev_call, prev_result>>
    /\ UNCHANGED <<codec_vars, msg_vars, page_vars>>

HostUndelegate ==
    /\ chain.delegations # <<>>
    /\ chain' = [chain EXCEPT !.delegations = <<>>]
    /\ UNCHANGED <<calls, host_queries, host_last, last_call, last_result, prev_call, prev_result>>
    /\ UNCHANGED <<codec_vars, msg_vars, page_vars>>

\* ---- a call of one of the nine methods -------------------------------------
\* d is the method's request and response type: the request goes to the chain
\* once and the decoded answer, or the error, goes back to the caller
Dispatch(method, args, d) ==
    /\ \E o \in QuerierWrapperQuery(chain, d.request, d.returns) : last_result' = o
    /\ last_call' = [method |-> method, args |-> args, decodes_into |-> d.returns]
    /\ host_last' = d.request
    /\ host_queries' = host_queries + 1
    /\ calls' = calls + 1
    /\ prev_call' = last_call
    /\ prev_result' = last_result
    /\ UNCHANGED <<chain, codec_vars, msg_vars, page_vars>>

QueryAllianceAlliance ==
    /\ calls < MaxCalls
    /\ \E denom \in QueryDenoms :
           Dispatch("query_alliance_alliance", <<denom>>, query_alliance_alliance(denom))

QueryAllianceAlliances ==
    /\ calls < MaxCalls
    /\ \E pg \in QueryPaginations :
           Dispatch("query_alliance_alliances", <<pg>>, query_alliance_alliances(pg))

QueryAllianceAlliancesDelegations ==
    /\ calls < MaxCalls
    /\ \E pg \in QueryPaginations :
           Dispatch("query_alliance_alliances_delegations", <<pg>>,
                    query_alliance_alliances_delegations(pg))

QueryAllianceAlliancesDelegationByValidator ==
    /\ calls < MaxCalls
    /\ \E pg \in QueryPaginations :
           Dispatch("query_alliance_alliances_delegation_by_validator",
                    <<"a1", ValidatorList[1], pg>>,
                    query_alliance_alliances_delegation_by_validator("a1", ValidatorList[1], pg))

QueryAllianceDelegation ==
    /\ calls < MaxCalls
    /\ \E denom \in QueryDenoms :
           Dispatch("query_alliance_delegation", <<"a1", ValidatorList[1], denom>>,
                    query_alliance_delegation("a1", ValidatorList[1], denom))

QueryAllianceDelegationRewards ==
    /\ calls < MaxCalls
    /\ \E denom \in QueryDenoms :
           Dispatch("query_alliance_delegation_rewards", <<"a1", ValidatorList[1], denom>>,
                    query_alliance_delegation_rewards("a1", ValidatorList[1], denom))

QueryAllianceParams ==
    /\ calls < MaxCalls
    /\ Dispatch("query_alliance_params", <<>>, query_alliance_params)

QueryAllianceValidator ==
    /\ calls < MaxCalls
    /\ \E v \in {ValidatorList[1], ValidatorList[2]} :
           Dispatch("query_alliance_validator", <<v>>, query_alliance_validator(v))

QueryAllianceValidators ==
    /\ calls < MaxCalls
    /\ \E pg \in QueryPaginations :
           Dispatch("query_alliance_validators", <<pg>>, query_alliance_validators(pg))

(***************************************************************************)
(* A client that walks a paginated query: each response's next_key is the  *)
(* next request's key, everything else in the request stays the same       *)
(***************************************************************************)
MaxEntries == 4
MaxLimit == 2

PagedMethods ==
    {"query_alliance_alliances", "query_alliance_alliances_delegations",
     "query_alliance_alliances_delegation_by_validator", "query_alliance_validators"}

\* a chain with n alliances, n validators, and for each alliance a delegation
\* of "a1" and one of "a2" to the first validator
PagingChain(n) ==
    [alliances   |-> [i \in 1..n |-> [denom |-> DenomList[i], reward_start_time |-> GoodTime]],
     delegations |-> [j \in 1..(2 * n) |->
                         HostDelegation(IF j % 2 = 1 THEN "a1" ELSE "a2",
                                        ValidatorList[1], DenomList[(j + 1) \div 2])],
     validators  |-> [i \in 1..n |-> ValidatorList[i]]]

\* the call the client makes for a page
PagedCall(method, pagination) ==
    IF method = "query_alliance_alliances" THEN query_alliance_alliances(pagination)
    ELSE IF method = "query_alliance_alliances_delegations"
    THEN query_alliance_alliances_delegations(pagination)
    ELSE IF method = "query_alliance_alliances_delegation_by_validator"
    THEN query_alliance_alliances_delegation_by_validator("a1", ValidatorList[1], pagination)
    ELSE query_alliance_validators(pagination)

\* the entries of a decoded page
PageItems(method, value) ==
    IF method = "query_alliance_alliances" THEN value.alliances
    ELSE IF method = "query_alliance_validators" THEN value.validators
    ELSE value.delegations

PageInit ==
    /\ page_query = None
    /\ cursor = None
    /\ visited = <<>>
    /\ page_pc = "idle"

StartPaging ==
    /\ page_pc = "idle"
    /\ \E method \in PagedMethods, limit \in 1..MaxLimit :
          page_query' = [method |-> method, limit |-> limit]
    /\ cursor' = None
    /\ visited' = <<>>
    /\ page_pc' = "paging"
    /\ UNCHANGED <<codec_vars, msg_vars, query_vars>>

FetchPage ==
    /\ page_pc = "paging"
    /\ LET d == PagedCall(page_query.method, PageRequest(cursor, page_query.limit))
       IN  \E o \in QuerierWrapperQuery(chain, d.request, d.returns) :
              IF o.kind = "ok"
              THEN /\ visited' = visited \o PageItems(page_query.method, o.value)
                   /\ cursor' = IF o.value.pagination = None THEN None
                                ELSE o.value.pagination.some.next_key
                   /\ page_pc' = IF cursor' = None THEN "done" ELSE "paging"
              ELSE /\ page_pc' = "failed"
                   /\ UNCHANGED <<cursor, visited>>
    /\ UNCHANGED <<page_query, codec_vars, msg_vars, query_vars>>

(***************************************************************************)
(* The specifications                                                      *)
(***************************************************************************)
Init == CodecInit /\ MsgInit /\ QueryInit /\ PageInit

\* the wire codec
NextCodec == Encode \/ HostSends \/ Decode \/ Reencode
SpecCodec == Init /\ [][NextCodec]_vars

\* the message builders and the message envelope
NextMsg ==
    \/ AllianceDelegate
    \/ AllianceUndelegate
    \/ AllianceRedelegate
    \/ AllianceClaimDelegationRewards
    \/ SerializeMsg
SpecMsg == Init /\ [][NextMsg]_vars

\* the query dispatcher against a chain whose state changes
NextQuery ==
    \/ HostCreateAlliance
    \/ HostDelegate
    \/ HostUndelegate
    \/ QueryAllianceAlliance
    \/ QueryAllianceAlliances
    \/ QueryAllianceAlliancesDelegations
    \/ QueryAllianceAlliancesDelegationByValidator
    \/ QueryAllianceDelegation
    \/ QueryAllianceDelegationRewards
    \/ QueryAllianceParams
    \/ QueryAllianceValidator
    \/ QueryAllianceValidators
SpecQuery == Init /\ [][NextQuery]_vars

\* a client paging through a chain whose state does not change
InitPaging ==
    /\ CodecInit /\ MsgInit /\ DispatcherInit /\ PageInit
    /\ chain \in {PagingChain(n) : n \in 0..MaxEntries}
NextPaging == StartPaging \/ FetchPage
SpecPaging == InitPaging /\ [][NextPaging]_vars

(***************************************************************************)
(* The claims about the wire codec (checked under SpecCodec)               *)
(***************************************************************************)

\* C1: for every u64 nanosecond timestamp t, values at and above 2^63 included,
\* decoding the string that encoding t produced succeeds and returns exactly t.
C1_RoundTripTimestamp ==
    (codec_pc = "decoded" /\ origin.kind = "timestamp")
        => (codec_result = "ok" /\ time_stamp = origin.nanos)

\* C2: for every u64 nanosecond timestamp t, the encoder writes the UTC RFC3339
\* string of the instant exactly t nanoseconds after the epoch: the cast to i64
\* does not change the instant.
C2_EncodeDenotesInstant ==
    codec_pc = "encoded"
        => /\ IsRfc3339(wire)
           /\ wire[Len(wire)] = "Z"
           /\ InstantOf(wire) = origin.nanos

\* C2, its example: 1686075449956787974 is written as
\* "2023-06-06T18:37:29.956787974Z".
C2_ExampleString ==
    (codec_pc = "encoded" /\ origin.nanos = <<1, 686075449, 956787974>>)
        => wire = <<"2", "0", "2", "3", "-", "0", "6", "-", "0", "6", "T", "1", "8", ":", "3", "7", ":", "2", "9", ".", "9", "5", "6", "7", "8", "7", "9", "7", "4", "Z">>

\* C3: for every valid RFC3339 string s, of any year and any offset, decoding s
\* succeeds, and encoding the decoded Timestamp gives a UTC string of the same
\* instant as s.
C3_RoundTripString ==
    (codec_pc \in {"decoded", "reencoded"} /\ origin.kind = "string" /\ IsRfc3339(origin.text))
        => /\ codec_result = "ok"
           /\ codec_pc = "reencoded"
                 => /\ IsRfc3339(wire)
                    /\ wire[Len(wire)] = "Z"
                    /\ InstantOf(wire) = InstantOf(origin.text)

\* C4: for every valid RFC3339 string s, a Timestamp that decoding returns holds
\* the number of nanoseconds from the epoch to the instant of s, never another
\* instant's.
C4_DecodeDenotesInstant ==
    (/\ codec_pc = "decoded"
     /\ origin.kind = "string"
     /\ IsRfc3339(origin.text)
     /\ codec_result = "ok")
        => time_stamp = InstantOf(origin.text)

(***************************************************************************)
(* The claims about the message builders (checked under SpecMsg)           *)
(***************************************************************************)
\* what a builder call has to produce: the variant of the builder's name with
\* each argument in its own field
ExpectedVariantOf ==
    [alliance_delegate |-> Delegate,
     alliance_undelegate |-> Undelegate,
     alliance_redelegate |-> Redelegate,
     alliance_claim_deligation_rewards |-> ClaimDelegationRewards]

ExpectedFields(call) ==
    IF call.method \in {"alliance_delegate", "alliance_undelegate"}
    THEN [delegator_address |-> call.args[1], validator_address |-> call.args[2],
          amount |-> call.args[3]]
    ELSE IF call.method = "alliance_redelegate"
    THEN [delegator_address |-> call.args[1], validator_src_address |-> call.args[2],
          validator_dst_address |-> call.args[3], amount |-> call.args[4]]
    ELSE [delegator_address |-> call.args[1], validator_address |-> call.args[2],
          denom |-> call.args[3]]

\* C7: each of the four builders returns the AllianceMsg variant of its name
\* that carries exactly the arguments given, each in its own role, whatever the
\* arguments are.
C7_BuildersCarryArguments ==
    msg_call # None
        => msg_out = [custom |-> [variant |-> ExpectedVariantOf[msg_call.method],
                                  fields  |-> ExpectedFields(msg_call)]]

\* C7, its case: a redelegation between two different validators, from an
\* empty delegator address and of a zero amount, has been built
C7_Witness ==
    /\ msg_call # None
    /\ msg_call.method = "alliance_redelegate"
    /\ msg_call.args[1] = ""
    /\ msg_call.args[2] = "v1" /\ msg_call.args[3] = "a1"
    /\ msg_call.args[4].amount = 0
    /\ msg_out.custom.fields.validator_src_address = "v1"

ClaimScenario ==
    /\ msg_json # None
    /\ msg_call.method = "alliance_claim_deligation_rewards"
    /\ msg_call.args = <<"a1", "v1", "uusd">>

ScenarioFields == [delegator_address |-> "a1", validator_address |-> "v1", denom |-> "uusd"]

\* C10 as stated: the serialized ClaimDelegationRewards{a1, v1, uusd} has the
\* single tag `ClaimDelegationRewards` with exactly the three values under it.
C10_TagIsIdentifier ==
    ClaimScenario
        => msg_json = [tag |-> ClaimDelegationRewards, content |-> ScenarioFields]

\* C10 as amended: the serialized ClaimDelegationRewards{a1, v1, uusd} has the
\* single tag `claim_delegation_rewards` with exactly the three values under it,
\* and every AllianceMsg variant serializes to one tag, the snake_case form of
\* the variant's name, with exactly its own fields under it.
C10_TagIsSnakeCase ==
    msg_json # None
        => /\ DOMAIN msg_json = {"tag", "content"}
           /\ msg_json.tag =
                 [alliance_delegate |-> <<"d", "e", "l", "e", "g", "a", "t", "e">>,
                  alliance_undelegate |-> <<"u", "n", "d", "e", "l", "e", "g", "a", "t", "e">>,
                  alliance_redelegate |-> <<"r", "e", "d", "e", "l", "e", "g", "a", "t", "e">>,
                  alliance_claim_deligation_rewards |->
                      <<"c", "l", "a", "i", "m", "_", "d", "e", "l", "e", "g", "a", "t", "i", "o", "n", "_", "r", "e", "w", "a", "r", "d", "s">>
                 ][msg_call.method]
           /\ msg_json.content = ExpectedFields(msg_call)
           /\ ClaimScenario => msg_json.content = ScenarioFields

C10_Witness == ClaimScenario /\ msg_json.content = ScenarioFields

(***************************************************************************)
(* The claims about the query dispatcher (checked under SpecQuery)         *)
(***************************************************************************)
IsCall == calls' = calls + 1

\* the assets in the host's answer to the request the chain received
AnsweredAssets(c, request) ==
    LET a == HostAnswer(c, request)
    IN  IF ~a.ok THEN <<>>
        ELSE IF request.custom.variant = "Alliance" THEN <<a.payload.alliance>>
        ELSE IF request.custom.variant = "Alliances" THEN a.payload.alliances
        ELSE <<>>

\* C5: when the reward_start_time of an asset in the host's answer is not a
\* valid RFC3339 string, the query that returns the asset, alone or in a list,
\* returns the decoding error to its caller: no response, partial or defaulted.
C5_BadTimeFailsQuery ==
    [][ (IsCall /\ \E i \in 1..Len(AnsweredAssets(chain, host_last')) :
                      ~IsRfc3339(AnsweredAssets(chain, host_last')[i].reward_start_time))
            => last_result' = [kind |-> "error", error |-> "parse"] ]_vars

\* C5, its case: the list query failed on a chain whose first asset has a
\* valid time and whose second has not
C5_Witness ==
    /\ calls > 0
    /\ last_call.method = "query_alliance_alliances"
    /\ last_call.args = <<None>>
    /\ last_result = [kind |-> "error", error |-> "parse"]
    /\ Len(chain.alliances) = 2
    /\ chain.alliances[1].reward_start_time = GoodTime
    /\ chain.alliances[2].reward_start_time = BadTime

\* C6: there are nine query variants, each bound to one response type; each
\* method builds the variant it is named after and decodes into the type bound
\* to that variant, so a value it returns is of that type.
C6_MethodVariantResponse ==
    /\ Cardinality(DOMAIN QueryResponses) = 9
    /\ calls > 0
          => LET v == host_last.custom.variant
             IN  /\ v = [query_alliance_alliance |-> "Alliance",
                         query_alliance_alliances |-> "Alliances",
                         query_alliance_alliances_delegations |-> "AlliancesDelegations",
                         query_alliance_alliances_delegation_by_validator |->
                             "AlliancesDelegationByValidator",
                         query_alliance_delegation |-> "Delegation",
                         query_alliance_delegation_rewards |-> "DelegationRewards",
                         query_alliance_params |-> "Params",
                         query_alliance_validator |-> "Validator",
                         query_alliance_validators |-> "Validators"][last_call.method]
                 /\ last_call.decodes_into = QueryResponses[v]
                 /\ last_result.kind = "ok" => last_result.type = QueryResponses[v]

\* C6, its case: the rewards query returned a RewardsResponse
C6_Witness ==
    /\ calls > 0
    /\ last_call.method = "query_alliance_delegation_rewards"
    /\ last_result.kind = "ok"
    /\ last_result.type = "RewardsResponse"

\* C8: every call sends exactly one query to the chain and changes nothing
\* else; what it returns is decoded from the chain's answer at that moment, not
\* remembered from an earlier call; the host's rejection and a failed decoding
\* are returned to the caller, not retried and not replaced by a value.
C8_OneFreshQueryPerCall ==
    [][ IsCall
          => /\ host_queries' = host_queries + 1
             /\ chain' = chain
             /\ LET a == HostAnswer(chain, host_last')
                IN  IF ~a.ok THEN last_result' = [kind |-> "error", error |-> "host"]
                    ELSE last_result' \in FromBinary(a.payload, last_call'.decodes_into) ]_vars

\* C8, its case: the same call made twice, rejected by the host the first time
\* and answered the second time, the chain having changed in between, with two
\* queries sent in all
C8_Witness ==
    /\ calls = 2
    /\ host_queries = 2
    /\ prev_call = last_call
    /\ prev_result = [kind |-> "error", error |-> "host"]
    /\ last_result.kind = "ok"

(***************************************************************************)
(* The claim about pagination (checked under SpecPaging)                   *)
(***************************************************************************)
\* what identifies an entry of a page, and the entries the chain holds for the
\* query being walked
EntryKey(method, e) ==
    IF method = "query_alliance_alliances" THEN e.denom
    ELSE IF method = "query_alliance_validators" THEN e.validator_addr
    ELSE <<e.delegation.delegator_address, e.delegation.denom>>

ChainKeys(method) ==
    IF method = "query_alliance_alliances"
    THEN [i \in 1..Len(chain.alliances) |-> chain.alliances[i].denom]
    ELSE IF method = "query_alliance_validators" THEN chain.validators
    ELSE LET ds == IF method = "query_alliance_alliances_delegations" THEN chain.delegations
                   ELSE SelectSeq(chain.delegations,
                                  LAMBDA d : /\ d.delegation.delegator_address = "a1"
                                             /\ d.delegation.validator_address = ValidatorList[1])
         IN  [i \in 1..Len(ds) |-> <<ds[i].delegation.delegator_address, ds[i].delegation.denom>>]

\* C9: walking a paginated query over an unchanging data set, each response's
\* next_key fed back as the next key, receives every entry exactly once, none
\* left out and none twice, and ends when next_key is absent.
C9_PagingVisitsEachOnce ==
    page_pc # "idle"
        => LET full == ChainKeys(page_query.method)
               seen == [i \in 1..Len(visited) |-> EntryKey(page_query.method, visited[i])]
           IN  /\ page_pc \in {"paging", "done"}
               /\ \A i, j \in 1..Len(full) : full[i] = full[j] => i = j
               /\ Len(seen) <= Len(full)
               /\ seen = SubSeq(full, 1, Len(seen))
               /\ page_pc = "done" => seen = full /\ cursor = None
               /\ (page_pc = "paging" /\ Len(seen) > 0) => cursor # None /\ Len(seen) < Len(full)

\* C9, its case: a walk of the by-validator query, one entry a page, ended
\* after three pages and more
C9_Witness ==
    /\ page_pc = "done"
    /\ page_query.method = "query_alliance_alliances_delegation_by_validator"
    /\ page_query.limit = 1
    /\ Len(visited) >= 3

====
